---- MODULE Spec2Model ----
(***************************************************************************)
(* Acoustic-genome playlists: the vector store query, the population and   *)
(* refinement handlers of src/app.py and the extraction worker of          *)
(* src/worker.py, over the tables of src/migrate.py.                       *)
(*                                                                         *)
(* Numbers are kept as integers on a grid finer than the six decimals of   *)
(* the vector literal (Step, Half, One).  Redis is taken as reliable, and  *)
(* so is Postgres in the web handlers, except where a harvest is cut short *)
(* (HarvestStopped); the calls to the music platform and to the preview    *)
(* hosts may fail wherever the code calls them, and in the worker so may   *)
(* the analyzer and the writes to Postgres.                                *)
(***************************************************************************)
EXTENDS Integers, Sequences, FiniteSets, TLC

\* ---------------------------------------------------------------- bounds
\* Number of content ids (platform track ids) in the world.
NumTracks == 4
\* Number of distinct preview audio contents the preview hosts can return.
NumAudio == 2
\* Largest corpus the clustering step labels.
MaxCorpus == 2
\* The sizes of the handlers, scaled down to the bounded world: the target
\* playlist size (30 in populate's k and in iterate's cap), the number of
\* closest candidates iterate skips (30), the limits populate and iterate
\* pass to nearest_tracks (120 and 180) and the inner LIMIT of its query (400).
TargetSize == 2
SkipClosest == 1
PopulateLimit == 3
IterateLimit == 4
InnerLimit == 2

\* Largest limit a query of the vector store is checked with.
MaxLimit == 2
\* Largest Generation scored with every combination of the signals; larger
\* ones, up to GenerationSize, are scored with striped signals.
MaxFullGen == 3

\* The job entries pushed onto the queue, and the most preview URLs of one.
MaxJobs == 3
MaxPreviews == 2

\* The entries on the queue beyond which no enrichment enqueues.
MaxQueue == 3

\* The upserts applied in a row to the feature table.
MaxUpserts == 3

\* The largest count a harvest is asked for, the most recordings of a result
\* page, the most isrcs of a recording, and the result pages a tag query has
\* before the source is exhausted.
MaxWant == 2
MaxPage == 2
MaxRecIsrcs == 2
NumPages == 2

\* ------------------------------------------------------- program constants
\* The target playlist size of the handlers, unscaled: the largest Generation.
GenerationSize == 30
\* range(4): the clusters ("Genome 1..4") of populate and iterate.
NumClusters == 4
\* The temperatures of populate and iterate, in thousandths (0.15 and 0.25).
TauPopulate == 150
TauIterate == 250
\* The batch of current_user_saved_tracks_contains.
SavedChunk == 50
\* The length of the assembled vector, vector(62).
VecDim == 62

Tracks == 1..NumTracks
Clusters == 0..(NumClusters - 1)
Audios == 1..NumAudio
Users == {"u1", "u2"}

\* The platform's catalog: each content id carries one isrc; content ids 1
\* and 2 are two releases of the same recording.
IsrcOf(t) == IF t <= 2 THEN 1 ELSE t - 1
Isrcs == {IsrcOf(t) : t \in Tracks}

\* A content id without a track_map row (or with a NULL isrc), an isrc without
\* a feature row, a cluster without a centroid, Python's None for a string.
NoIsrc == 0
NoRow == [vec |-> <<>>, feats |-> <<>>, extractor_version |-> ""]
NoCentroid == [sum |-> <<>>, n |-> 0]
None == "None"
FEATURE_VERSION == "essentia_v1"
EXTRACTOR_VERSION == "essentia2.1b6+deam0"

\* ---------------------------------------------------------------- helpers
Min(a, b) == IF a <= b THEN a ELSE b
Max(a, b) == IF a >= b THEN a ELSE b
Range(s) == {s[i] : i \in DOMAIN s}
Zeros(n) == [i \in 1..n |-> 0]
NoDup(s) == \A i, j \in DOMAIN s : i # j => s[i] # s[j]

RECURSIVE SumSeq(_)
SumSeq(s) == IF s = <<>> THEN 0 ELSE Head(s) + SumSeq(Tail(s))

\* A variant of the pop that leaves the list as it is.
RemoveNone(s, i) == s

\* s without its i-th entry: list.pop(i).
RemoveAt(s, i) == [j \in 1..(Len(s) - 1) |-> IF j < i THEN s[j] ELSE s[j + 1]]

\* The first n entries of s: s[:n].
Prefix(s, n) == SubSeq(s, 1, Min(n, Len(s)))

\* The entries of s after its first n: s[n:].
DropFirst(s, n) == IF n >= Len(s) THEN <<>> ELSE SubSeq(s, n + 1, Len(s))

\* Every list of n distinct members of S.
RECURSIVE DistinctSeqs(_, _)
DistinctSeqs(S, n) ==
    IF n = 0 THEN {<<>>}
    ELSE UNION {{<<x>> \o r : r \in DistinctSeqs(S \ {x}, n - 1)} : x \in S}

\* ------------------------------------------------------ feature assembler
\* Numbers are held as integers.  Step units make one unit of the last decimal
\* that vec_literal keeps (f"{float(x):.6f}"); the values 0.5 and 1.0 of the
\* code, which the literal holds exactly, are scaled to one and two such steps.
Step == 4
Half == Step
One == 2 * Step

KEY_IDX ==
    [k \in {"C", "C#", "D", "D#", "E", "F", "F#", "G", "G#", "A", "A#", "B"} |->
        CASE k = "C" -> 0 [] k = "C#" -> 1 [] k = "D" -> 2 [] k = "D#" -> 3
          [] k = "E" -> 4 [] k = "F" -> 5 [] k = "F#" -> 6 [] k = "G" -> 7
          [] k = "G#" -> 8 [] k = "A" -> 9 [] k = "A#" -> 10 [] k = "B" -> 11]

\* str.upper() and str.lower() on the key and scale names the model uses.
Upper(k) ==
    CASE k = "c" -> "C" [] k = "c#" -> "C#" [] k = "d" -> "D" [] k = "d#" -> "D#"
      [] k = "e" -> "E" [] k = "f" -> "F" [] k = "f#" -> "F#" [] k = "g" -> "G"
      [] k = "g#" -> "G#" [] k = "a" -> "A" [] k = "a#" -> "A#" [] k = "b" -> "B"
      [] k = "h" -> "H" [] k = "Eb" -> "EB"
      [] OTHER -> k

Lower(s) ==
    CASE s = "Major" -> "major" [] s = "MAJOR" -> "major"
      [] s = "Minor" -> "minor" [] s = "MINOR" -> "minor"
      [] OTHER -> s

\* k or "": None counts as the empty string.
OrEmpty(k) == IF k = None THEN "" ELSE k

\* A variant of the encoding that gives both scales of a key the same slot.
key_onehot_one_scale(k, scale) ==
    LET up == Upper(OrEmpty(k))
    IN  [s \in 1..24 |->
            IF up \in DOMAIN KEY_IDX /\ s = KEY_IDX[up] * 2 + 1 THEN One ELSE 0]

\* key_onehot: 24 slots, slot idx*2 + mj set to 1 for a known key.
key_onehot(k, scale) ==
    LET up == Upper(OrEmpty(k))
        mj == IF Lower(OrEmpty(scale)) = "major" THEN 0 ELSE 1
    IN  [s \in 1..24 |->
            IF up \in DOMAIN KEY_IDX /\ s = KEY_IDX[up] * 2 + mj + 1 THEN One ELSE 0]

\* dict.get(k, d) on a feature map held as a function on the keys present.
Get(f, k, d) == IF k \in DOMAIN f THEN f[k] ELSE d

\* A variant of the assembler without defaults: it appends the fields present.
assemble_vec_present(feats) ==
    Get([k \in DOMAIN feats |-> <<feats[k]>>], "bpm", <<>>)
    \o Get([k \in DOMAIN feats |-> <<feats[k]>>], "onset_rate", <<>>)
    \o key_onehot(Get(feats, "key_key", None), Get(feats, "key_scale", None))
    \o Get(feats, "tonnetz_mean", <<>>)
    \o Get(feats, "hpcp_mean", <<>>)
    \o Get(feats, "mfcc_mean", <<>>)
    \o Get([k \in DOMAIN feats |-> <<feats[k]>>], "spectral_centroid_mean", <<>>)
    \o Get([k \in DOMAIN feats |-> <<feats[k]>>], "spectral_flatness_mean", <<>>)
    \o Get([k \in DOMAIN feats |-> <<feats[k]>>], "loudness_integrated", <<>>)
    \o Get([k \in DOMAIN feats |-> <<feats[k]>>], "valence_pred", <<>>)
    \o Get([k \in DOMAIN feats |-> <<feats[k]>>], "arousal_pred", <<>>)

\* A variant of the assembler that appends the pitch-class profile before
\* the tonal centroid.
assemble_vec_hpcp_first(feats) ==
    <<Get(feats, "bpm", 0), Get(feats, "onset_rate", 0)>>
    \o key_onehot(Get(feats, "key_key", None), Get(feats, "key_scale", None))
    \o Get(feats, "hpcp_mean", Zeros(12))
    \o Get(feats, "tonnetz_mean", Zeros(6))
    \o Get(feats, "mfcc_mean", Zeros(13))
    \o <<Get(feats, "spectral_centroid_mean", 0),
         Get(feats, "spectral_flatness_mean", 0),
         Get(feats, "loudness_integrated", 0),
         Get(feats, "valence_pred", Half),
         Get(feats, "arousal_pred", Half)>>

\* assemble_vec of the application: the stored feature map to the 62 entries.
assemble_vec(feats) ==
    <<Get(feats, "bpm", 0), Get(feats, "onset_rate", 0)>>
    \o key_onehot(Get(feats, "key_key", None), Get(feats, "key_scale", None))
    \o Get(feats, "tonnetz_mean", Zeros(6))
    \o Get(feats, "hpcp_mean", Zeros(12))
    \o Get(feats, "mfcc_mean", Zeros(13))
    \o <<Get(feats, "spectral_centroid_mean", 0),
         Get(feats, "spectral_flatness_mean", 0),
         Get(feats, "loudness_integrated", 0),
         Get(feats, "valence_pred", Half),
         Get(feats, "arousal_pred", Half)>>

\* The external analyzer (Essentia's MusicExtractor) on audio content a, a
\* black box: a fixed map from the audio to the measurements the worker reads.
\* The measurements are floats: the tempo and the flatness have digits beyond
\* the last decimal of the literal, the loudness and a cepstral mean are
\* negative, and no two fields of a kind have the same value.
Analyzer(a) ==
    [bpm |-> One * a + 1, onset_rate |-> One,
     key_key |-> IF a % 2 = 1 THEN "C" ELSE "A",
     key_scale |-> IF a % 2 = 1 THEN "major" ELSE "minor",
     hpcp_mean |-> [d \in 1..12 |-> IF d = a THEN One ELSE 0],
     tonnetz_mean |-> [d \in 1..6 |-> IF d = 1 THEN Half ELSE 0],
     mfcc_mean |-> [d \in 1..13 |-> IF d = 1 THEN 0 - One ELSE 0],
     spectral_centroid_mean |-> One + Half, spectral_flatness_mean |-> 1,
     loudness_integrated |-> 0 - 2 * One]

\* The worker's own key_onehot, local to music_features_from_preview, with
\* its own table idx_map.
idx_map ==
    [k \in {"C", "C#", "D", "D#", "E", "F", "F#", "G", "G#", "A", "A#", "B"} |->
        CASE k = "C" -> 0 [] k = "C#" -> 1 [] k = "D" -> 2 [] k = "D#" -> 3
          [] k = "E" -> 4 [] k = "F" -> 5 [] k = "F#" -> 6 [] k = "G" -> 7
          [] k = "G#" -> 8 [] k = "A" -> 9 [] k = "A#" -> 10 [] k = "B" -> 11]

worker_key_onehot(k, scale) ==
    LET up == Upper(OrEmpty(k))
        mj == IF Lower(OrEmpty(scale)) = "major" THEN 0 ELSE 1
    IN  [s \in 1..24 |->
            IF up \in DOMAIN idx_map /\ s = idx_map[up] * 2 + mj + 1 THEN One ELSE 0]

\* music_features_from_preview of the worker: the stored map obj and the vector v.
music_features_from_preview(a) ==
    LET m == Analyzer(a)
        obj == [bpm |-> m.bpm, onset_rate |-> m.onset_rate,
                key_key |-> m.key_key, key_scale |-> m.key_scale,
                hpcp_mean |-> m.hpcp_mean, tonnetz_mean |-> m.tonnetz_mean,
                mfcc_mean |-> m.mfcc_mean,
                spectral_centroid_mean |-> m.spectral_centroid_mean,
                spectral_flatness_mean |-> m.spectral_flatness_mean,
                loudness_integrated |-> m.loudness_integrated,
                valence_pred |-> Half, arousal_pred |-> Half]
        v == <<obj.bpm, obj.onset_rate>>
             \o worker_key_onehot(obj.key_key, obj.key_scale)
             \o obj.tonnetz_mean \o obj.hpcp_mean \o obj.mfcc_mean
             \o <<obj.spectral_centroid_mean, obj.spectral_flatness_mean,
                  obj.loudness_integrated, obj.valence_pred, obj.arousal_pred>>
    IN  [feats |-> obj, vec |-> v]

\* ------------------------------------------------------------------ state
VARIABLES
    feat,      \* isrc_feature: isrc -> row (feature_version essentia_v1) or NoRow
    tmap,      \* track_map: content id -> isrc or NoIsrc
    used,      \* user_used: the set of (user, content id) rows
    labels,    \* redis u:<uid>:clusters:labels: user -> (content id -> cluster)
    pid,       \* redis u:<uid>:playlist:<i>: whether the playlist id is stored
    gen,       \* redis u:<uid>:pl:<i>:last: the stored Generation
    playlist,  \* the items the application last put into the playlist of (user, cluster)
    req,       \* user -> the populate or iterate request in progress, if any
    queue,     \* redis list essentia:jobs
    worker,    \* worker process -> its position in run_once and the job it holds
    jobs,      \* bookkeeping: what became of each job entry ever pushed
    ever,      \* bookkeeping: user -> the ids ever stored in one of its Generations
    catalog,   \* redis u:<uid>:catalog: user -> the content ids harvested
    harv,      \* user -> the harvest request in progress, if any
    harvested, \* bookkeeping: user -> content id -> the jobs its harvests enqueued for it
    frame      \* the inputs and results of the function under test

vars == <<feat, tmap, used, labels, pid, gen, playlist, req, queue, worker, jobs, ever,
          catalog, harv, harvested, frame>>

storeVars == <<feat, tmap>>
userVars == <<used, labels, pid, gen, playlist, req, ever>>
workerVars == <<queue, worker, jobs>>
harvestVars == <<catalog, harv, harvested>>

\* ------------------------------------------------------------ the tables
\* INSERT INTO track_map ... ON CONFLICT (spotify_track_id) DO UPDATE.
upsert_track_map(tm, spid, isrc) == [tm EXCEPT ![spid] = isrc]

\* f"{float(x):.6f}": x to the nearest value of six decimals, a tie of the
\* two neighbours to the one with the even last digit.
round6(x) ==
    LET q == x \div Step
        r == x % Step
    IN  IF 2 * r < Step THEN q * Step
        ELSE IF 2 * r > Step THEN (q + 1) * Step
        ELSE IF q % 2 = 0 THEN q * Step ELSE (q + 1) * Step

\* vec_literal: the pgvector text of a list, every entry with six decimals.
vec_literal(arr) == [d \in DOMAIN arr |-> round6(arr[d])]

\* A variant whose DO UPDATE sets vec alone.
upsert_vec_only(ft, isrc, vec, feats) ==
    [ft EXCEPT ![isrc] =
        IF @ = NoRow
        THEN [vec |-> vec_literal(vec), feats |-> feats,
              extractor_version |-> EXTRACTOR_VERSION]
        ELSE [@ EXCEPT !.vec = vec_literal(vec)]]

\* INSERT INTO isrc_feature ... ON CONFLICT (isrc, feature_version) DO UPDATE:
\* vec is written as vec_literal(vec); feats as json.dumps(feats), which
\* gives every float the shortest text that reads back as the same float.
upsert_isrc_feature(ft, isrc, vec, feats) ==
    [ft EXCEPT ![isrc] =
        [vec |-> vec_literal(vec), feats |-> feats,
         extractor_version |-> EXTRACTOR_VERSION]]

UsedSet(us, u) == {t \in Tracks : <<u, t>> \in us}

\* A variant that marks no id.
mark_used_none(us, u, ids) == us

\* A variant that marks only the ids after the first.
mark_used_tail(us, u, ids) == us \cup {<<u, ids[j]>> : j \in DOMAIN ids \ {1}}

\* INSERT INTO user_used ... ON CONFLICT DO NOTHING, for every id of the list.
mark_used(us, u, ids) == us \cup {<<u, t>> : t \in Range(ids)}

\* ------------------------------------------------------------- centroids
\* centroid_for_cluster: the mean of assemble_vec(feats) over the feature rows
\* of the isrcs of the user's tracks labelled cluster_id; none without any.
\* The mean is kept exact as the sum of the vectors and their number.
RECURSIVE SumVecs(_, _)
SumVecs(ft, I) ==
    IF I = {} THEN Zeros(VecDim)
    ELSE LET i == CHOOSE x \in I : TRUE
             v == assemble_vec(ft[i].feats)
             r == SumVecs(ft, I \ {i})
         IN  [d \in 1..VecDim |-> v[d] + r[d]]

centroid_for_cluster(ft, tm, lab, cluster_id) ==
    LET tids == {t \in DOMAIN lab : lab[t] = cluster_id}
        isrcs == {tm[t] : t \in {x \in tids : tm[x] # NoIsrc}}
        have == {i \in isrcs : ft[i] # NoRow}
    IN  IF tids = {} \/ have = {} THEN NoCentroid
        ELSE [sum |-> SumVecs(ft, have), n |-> Cardinality(have)]

\* vec <-> q: the L2 distance of a stored vector to the centroid; what is kept
\* is its square times n*n, which orders the rows as the distance does.  The
\* six decimals of vec_literal move the query by less than a millionth, which
\* can only turn a tie into either order; ties are resolved either way here.
Dist(cent, vec) ==
    SumSeq([d \in 1..VecDim |-> (cent.n * vec[d] - cent.sum[d]) * (cent.n * vec[d] - cent.sum[d])])

\* The CTE nn: the isrcs of the InnerLimit rows closest to the query.
NearestIsrcs(ft, cent) ==
    LET rows == {i \in Isrcs : ft[i] # NoRow}
        n == Min(InnerLimit, Cardinality(rows))
        d == [i \in rows |-> Dist(cent, ft[i].vec)]
    IN  {S \in SUBSET rows :
            /\ Cardinality(S) = n
            /\ \A a \in S, b \in rows \ S : d[a] <= d[b]}

\* A variant of the join without the exclusion of the user's used ids.
JoinedAll(tm, us, S, uid) == {t \in Tracks : tm[t] \in S}

\* A variant of the join that excludes the ids used by any user.
JoinedUnusedByAll(tm, us, S, uid) ==
    {t \in Tracks : tm[t] \in S /\ \A u \in Users : <<u, t>> \notin us}

\* The rows of nn JOIN track_map LEFT JOIN user_used WHERE uu IS NULL.
Joined(tm, us, S, uid) == {t \in Tracks : tm[t] \in S /\ <<uid, t>> \notin us}

\* A variant of the query without the outer LIMIT.
nearest_tracks_unlimited(ft, tm, us, cent, uid, limit) ==
    UNION {DistinctSeqs(Joined(tm, us, S, uid), Cardinality(Joined(tm, us, S, uid)))
           : S \in NearestIsrcs(ft, cent)}

\* nearest_tracks: every list the query can return.  The outer SELECT has a
\* LIMIT and no ORDER BY, so any limit rows of the join come back in any order.
nearest_tracks(ft, tm, us, cent, uid, limit) ==
    UNION {DistinctSeqs(Joined(tm, us, S, uid),
                        Min(limit, Cardinality(Joined(tm, us, S, uid))))
           : S \in NearestIsrcs(ft, cent)}

\* -------------------------------------------------------------- sampling
\* math.exp(-x) of IEEE doubles is 0.0 exactly when x exceeds 745 (and a
\* fraction); tau is held in thousandths, so exp(-d/tau) is 0.0 when
\* 1000 * d > 745 * tau.
ExpUnderflow == 745

weight_is_zero(d, tau) == 1000 * d > ExpUnderflow * tau

\* softmax_sample: every list of picks the draws can produce.  Each round
\* weighs the remaining items by exp(-d/tau), draws one (random.random()
\* against the cumulated weights), appends its id and pops it; the rounds end
\* when k ids are picked or no item is left.  When every remaining weight is
\* 0.0 the normalisation divides by zero and the call raises: no list.  An
\* item of weight 0.0 is drawn only in first position (rnum = 0.0 <= cum).
RECURSIVE Sample(_, _, _, _)
Sample(items, k, tau, picks) ==
    IF items = <<>> \/ Len(picks) >= k THEN {picks}
    ELSE IF \A i \in DOMAIN items : weight_is_zero(items[i][2], tau) THEN {}
    ELSE UNION {Sample(RemoveAt(items, i), k, tau, Append(picks, items[i][1]))
                : i \in {j \in DOMAIN items :
                            j = 1 \/ ~weight_is_zero(items[j][2], tau)}}

\* A variant that keeps a picked item in the pool: k draws with replacement.
softmax_sample_replacing(cands, k, tau) ==
    IF cands = <<>> THEN {<<>>}
    ELSE {[j \in 1..k |-> cands[f[j]][1]] : f \in [1..k -> DOMAIN cands]}

softmax_sample(cands, k, tau) == Sample(cands, k, tau, <<>>)

\* [(tid, idx + 1) for idx, tid in enumerate(nns)]: the rank as pseudo distance.
Ranked(nns) == [idx \in DOMAIN nns |-> <<nns[idx], idx>>]

\* ------------------------------------------------------------- populate
\* The picks of populate for one cluster with centroid cent: the nearest
\* unseen ids, ranked, sampled down to the target size.
populate_picks(ft, tm, us, cent, uid) ==
    UNION {IF Ranked(nns) # <<>>
           THEN softmax_sample(Ranked(nns), TargetSize, TauPopulate)
           ELSE {<<>>}
           : nns \in nearest_tracks(ft, tm, us, cent, uid, PopulateLimit)}

\* -------------------------------------------------------------- iterate
\* played: the ids of the recently played tracks; empty when the call raises.
played_of(recent, ok) == IF ok THEN recent ELSE {}

\* The saved flags: one call per batch of SavedChunk ids; a batch whose call
\* fails counts as all False.  library is the user's saved tracks, failed the
\* batches (numbered from 0) whose call raises.
saved_flags(last, library, failed) ==
    [idx \in DOMAIN last |->
        ((idx - 1) \div SavedChunk) \notin failed /\ last[idx] \in library]

\* now_ids: the items of the playlist, or set(last) when they cannot be fetched.
now_ids_of(last, items, fetched) == IF fetched THEN items ELSE Range(last)

\* A variant that scores the signals as exclusive cases, the first that applies.
score_exclusive(last, saved, played, now_ids, idx) ==
    IF saved[idx] THEN 3
    ELSE IF last[idx] \in played THEN 2
    ELSE IF last[idx] \notin now_ids THEN 0 - 4
    ELSE 0 - 2

\* The score of the track at position idx of last.
score(last, saved, played, now_ids, idx) ==
    (IF saved[idx] THEN 3 ELSE 0)
    + (IF last[idx] \in played THEN 2 ELSE 0)
    - (IF last[idx] \notin now_ids THEN 4 ELSE 0)
    - (IF last[idx] \notin played /\ ~saved[idx] THEN 2 ELSE 0)

\* The dict fitness: tid -> score, a later position of the same id overwriting
\* an earlier one.
fitness_of(last, saved, played, now_ids) ==
    [tid \in Range(last) |->
        LET idx == CHOOSE i \in DOMAIN last :
                       last[i] = tid /\ \A j \in DOMAIN last : last[j] = tid => j <= i
        IN  score(last, saved, played, now_ids, idx)]

\* fitness.items(): the keys in the order of their first insertion.
RECURSIVE dict_keys(_, _)
dict_keys(last, seen) ==
    IF last = <<>> THEN <<>>
    ELSE IF Head(last) \in seen THEN dict_keys(Tail(last), seen)
         ELSE <<Head(last)>> \o dict_keys(Tail(last), seen \cup {Head(last)})

\* sorted(..., key = score, reverse = True): a stable sort, the highest score
\* first and equal scores in their original order.  x is inserted behind every
\* entry scoring at least as much.
\* A variant that puts x before the entries of equal score: not stable.
RECURSIVE insert_desc_unstable(_, _, _)
insert_desc_unstable(sorted, x, fit) ==
    IF sorted = <<>> THEN <<x>>
    ELSE IF fit[Head(sorted)] > fit[x]
         THEN <<Head(sorted)>> \o insert_desc_unstable(Tail(sorted), x, fit)
         ELSE <<x>> \o sorted

RECURSIVE insert_desc(_, _, _)
insert_desc(sorted, x, fit) ==
    IF sorted = <<>> THEN <<x>>
    ELSE IF fit[Head(sorted)] >= fit[x]
         THEN <<Head(sorted)>> \o insert_desc(Tail(sorted), x, fit)
         ELSE <<x>> \o sorted

RECURSIVE sort_desc(_, _, _)
sort_desc(keys, fit, acc) ==
    IF keys = <<>> THEN acc
    ELSE sort_desc(Tail(keys), fit, insert_desc(acc, Head(keys), fit))

\* A variant without the floor of one track: int(0.7 n).
keep_n_unguarded(n) == (7 * n) \div 10

\* A variant that rounds up: ceil(0.7 n).
keep_n_ceil(n) == (7 * n + 9) \div 10

\* keep_n = max(1, int(len(last) * 0.7)); the float product truncates to
\* floor(7n/10) for every n below 90.
keep_n(n) == Max(1, (7 * n) \div 10)

\* elite: the first keep_n ids of the ranking.
elite_of(last, fit) == Prefix(sort_desc(dict_keys(last, {}), fit, <<>>), keep_n(Len(last)))

\* nns without the elite, in order.
RECURSIVE without(_, _)
without(nns, elite) ==
    IF nns = <<>> THEN <<>>
    ELSE IF Head(nns) \in Range(elite) THEN without(Tail(nns), elite)
         ELSE <<Head(nns)>> \o without(Tail(nns), elite)

\* The candidates of iterate for one cluster: the nearest unseen ids, none
\* without a centroid.
iterate_nns(ft, tm, us, cent, uid) ==
    IF cent # NoCentroid THEN nearest_tracks(ft, tm, us, cent, uid, IterateLimit)
    ELSE {<<>>}

\* The mutants of iterate for the candidates nns: sampled from those that are
\* not elite, past the closest SkipClosest.
mutants_of(nns, last, elite) ==
    softmax_sample(Ranked(DropFirst(without(nns, elite), SkipClosest)),
                   Len(last) - Len(elite), TauIterate)

\* newlist = (elite + mutants)[:30].
newlist_of(elite, mutants) == Prefix(elite \o mutants, TargetSize)

\* ------------------------------------------------------- initial state
Idle == [op |-> "idle", i |-> 0, played |-> {}]
Workers == {"w1", "w2"}
NoJob == [id |-> 0, kind |-> "", spotify_id |-> 0, isrc |-> NoIsrc, previews |-> 0]
WorkerIdle == [pc |-> "poll", job |-> NoJob, k |-> 0, mp3 |-> 0]
HarvIdle == [op |-> "idle", pc |-> "", want |-> 0, added |-> 0, seen |-> {}, offset |-> 0,
             empty |-> FALSE]

InitStore ==
    /\ feat = [i \in Isrcs |-> NoRow]
    /\ tmap = [t \in Tracks |-> NoIsrc]

InitUsers ==
    /\ used = {}
    /\ labels = [u \in Users |-> <<>>]
    /\ pid = [u \in Users |-> [c \in Clusters |-> FALSE]]
    /\ gen = [u \in Users |-> [c \in Clusters |-> <<>>]]
    /\ playlist = [u \in Users |-> [c \in Clusters |-> <<>>]]
    /\ req = [u \in Users |-> Idle]
    /\ ever = [u \in Users |-> {}]

InitWorker ==
    /\ queue = <<>>
    /\ worker = [w \in Workers |-> WorkerIdle]
    /\ jobs = <<>>

InitHarvest ==
    /\ catalog = [u \in Users |-> {}]
    /\ harv = [u \in Users |-> HarvIdle]
    /\ harvested = [u \in Users |-> [t \in Tracks |-> 0]]

Init == InitStore /\ InitUsers /\ InitWorker /\ InitHarvest /\ frame = <<>>

\* ------------------------------------------------------------ the corpus
\* The audio of the preview that the hosts serve for an isrc.
PreviewOf(isrc) == 1 + (isrc % NumAudio)

\* A track is harvested and its job extracted: the identity row and the
\* feature row of its isrc are upserted.  Content ids are numbered in the
\* order in which they are harvested.
Extracted(t) ==
    /\ tmap[t] = NoIsrc
    /\ \A x \in Tracks : x < t => tmap[x] # NoIsrc
    /\ tmap' = upsert_track_map(tmap, t, IsrcOf(t))
    /\ feat' = upsert_isrc_feature(feat, IsrcOf(t),
                                   music_features_from_preview(PreviewOf(IsrcOf(t))).vec,
                                   music_features_from_preview(PreviewOf(IsrcOf(t))).feats)
    /\ UNCHANGED <<userVars, workerVars, frame, harvestVars>>

\* The clustering step stores the labels of the user's corpus, replacing the
\* former ones: any partition of the first tracks with extracted features into
\* at most as many groups as there are tracks (and at most NumClusters).
Labellings ==
    UNION {[1..c -> 0..(Min(NumClusters, c) - 1)] : c \in 0..MaxCorpus}

ClusterLabels(u) ==
    /\ req[u] = Idle
    /\ \E lab \in Labellings :
        /\ lab # labels[u]
        /\ \A t \in DOMAIN lab : tmap[t] # NoIsrc
        /\ labels' = [labels EXCEPT ![u] = lab]
    /\ UNCHANGED <<storeVars, used, pid, gen, playlist, req, ever, workerVars, frame, harvestVars>>

\* ------------------------------------------------------------- requests
\* The request moves on to the next cluster, or ends after the last.  Of the
\* recent plays only those of ids still to be looked up are kept: the ids of
\* the Generations g of the clusters to come.
Advance(r, g) ==
    IF r.i + 1 = NumClusters THEN Idle
    ELSE [r EXCEPT !.i = r.i + 1,
                   !.played = r.played \cap UNION {Range(g[c]) : c \in (r.i + 1)..(NumClusters - 1)}]

\* populate, up to its loop over the clusters: the four playlists exist.
PopulateStart(u) ==
    /\ req[u] = Idle
    /\ pid' = [pid EXCEPT ![u] = [c \in Clusters |-> TRUE]]
    /\ req' = [req EXCEPT ![u] = [op |-> "populate", i |-> 0, played |-> {}]]
    /\ UNCHANGED <<storeVars, used, labels, gen, playlist, ever, workerVars, frame, harvestVars>>

\* The writes of populate and iterate for a non-empty list: the playlist is
\* replaced, the Generation stored and every id marked used.
Store(u, i, ids) ==
    /\ playlist' = [playlist EXCEPT ![u][i] = ids]
    /\ gen' = [gen EXCEPT ![u][i] = ids]
    /\ used' = mark_used(used, u, ids)
    /\ ever' = [ever EXCEPT ![u] = @ \cup Range(ids)]

\* One round of populate's loop, for cluster req[u].i.
PopulateCluster(u) ==
    /\ req[u].op = "populate"
    /\ LET i == req[u].i
           cent == centroid_for_cluster(feat, tmap, labels[u], i)
       IN  IF cent = NoCentroid
           THEN UNCHANGED <<used, gen, playlist, ever>>
           ELSE \E picks \in populate_picks(feat, tmap, used, cent, u) :
                    IF picks # <<>> THEN Store(u, i, picks)
                    ELSE UNCHANGED <<used, gen, playlist, ever>>
    /\ req' = [req EXCEPT ![u] = Advance(req[u], gen[u])]
    /\ UNCHANGED <<storeVars, labels, pid, workerVars, frame, harvestVars>>

\* iterate, up to its loop: the recent plays are fetched (none when the call
\* fails).  Only the plays of ids of the user's Generations are ever looked up.
IterateStart(u) ==
    /\ req[u] = Idle
    /\ \E recent \in SUBSET UNION {Range(gen[u][c]) : c \in Clusters}, ok \in BOOLEAN :
        req' = [req EXCEPT ![u] =
                   [op |-> "iterate", i |-> 0, played |-> played_of(recent, ok)]]
    /\ UNCHANGED <<storeVars, used, labels, pid, gen, playlist, ever, workerVars, frame, harvestVars>>

\* Every newlist one round of iterate can reach for the Generation last:
\* over the saved tracks of the user (library), the batches whose saved call
\* fails, the items now in the playlist and whether they can be fetched.
iterate_newlists(ft, tm, us, lab, uid, i, last, played) ==
    LET cent == centroid_for_cluster(ft, tm, lab, i)
        nnss == iterate_nns(ft, tm, us, cent, uid)
        elites == {elite_of(last, fitness_of(last, saved_flags(last, sig[1], sig[2]),
                                             played, now_ids_of(last, sig[3], sig[4])))
                   : sig \in (SUBSET Range(last)) \X (SUBSET {0})
                             \X (SUBSET Range(last)) \X BOOLEAN}
    IN  UNION {UNION {{newlist_of(elite, mutants) : mutants \in mutants_of(nns, last, elite)}
                      : nns \in nnss}
               : elite \in elites}

\* One round of iterate's loop, for cluster req[u].i.
IterateCluster(u) ==
    /\ req[u].op = "iterate"
    /\ LET i == req[u].i
           last == gen[u][i]
       IN  IF ~pid[u][i] \/ last = <<>>
           THEN UNCHANGED <<used, gen, playlist, ever>>
           ELSE \E newlist \in iterate_newlists(feat, tmap, used, labels[u], u, i,
                                                last, req[u].played) :
                    IF newlist # <<>> THEN Store(u, i, newlist)
                    ELSE UNCHANGED <<used, gen, playlist, ever>>
    /\ req' = [req EXCEPT ![u] = Advance(req[u], gen[u])]
    /\ UNCHANGED <<storeVars, labels, pid, workerVars, frame, harvestVars>>

\* A call to the platform that the handler does not guard raises (creating a
\* playlist, replacing its items): the request ends before the writes of the
\* round it is in.
RequestFails(u) ==
    /\ req[u] # Idle
    /\ req' = [req EXCEPT ![u] = Idle]
    /\ UNCHANGED <<storeVars, used, labels, pid, gen, playlist, ever, workerVars, frame, harvestVars>>

\* The requests of one user, serialized by the caller.
Next ==
    \/ \E t \in Tracks : Extracted(t)
    \/ ClusterLabels("u1")
    \/ PopulateStart("u1")
    \/ PopulateCluster("u1")
    \/ IterateStart("u1")
    \/ IterateCluster("u1")
    \/ RequestFails("u1")

Spec == Init /\ [][Next]_vars

C3_UsedIsEverStored ==
    /\ [](\A u \in Users :
            /\ UsedSet(used, u) = ever[u]
            /\ \A c \in Clusters : Range(gen[u][c]) \subseteq UsedSet(used, u))
    /\ [][used \subseteq used']_vars

\* Both clusters of u1 hold a Generation and some used id is in neither.
C3_Witness ==
    /\ req["u1"] = Idle
    /\ gen["u1"][0] # <<>> /\ gen["u1"][1] # <<>>
    /\ ever["u1"] \ (Range(gen["u1"][0]) \cup Range(gen["u1"][1])) # {}

\* C7: every stored Generation holds at most the target size of ids (30 in
\* the code), none of them twice.
C7_GenerationBounded ==
    \A u \in Users, c \in Clusters :
        Len(gen[u][c]) <= TargetSize /\ NoDup(gen[u][c])

\* populate found more candidates than the target size and stored a full
\* Generation; iterate then stored a full one again, with a mutant.
C7_Witness ==
    /\ req["u1"].op = "iterate" /\ req["u1"].i = 1
    /\ Len(gen["u1"][0]) = TargetSize
    /\ Cardinality(UsedSet(used, "u1")) > TargetSize
    /\ Cardinality({t \in Tracks : tmap[t] # NoIsrc}) > TargetSize

\* ------------------------------------------------- the vector store query
\* The feature row that the worker stores for isrc i from its preview.
RowOf(i) ==
    upsert_isrc_feature([x \in Isrcs |-> NoRow], i,
                        music_features_from_preview(PreviewOf(i)).vec,
                        music_features_from_preview(PreviewOf(i)).feats)[i]

\* The centroid of a cluster whose only track has audio a.
CentroidOfAudio(a) == [sum |-> assemble_vec(music_features_from_preview(a).feats), n |-> 1]

\* nearest_tracks as a function under test: any feature table, any identity
\* map of the first harvested tracks, any used rows of u1 with none or all of
\* u2, and a query of either user with a limit up to MaxLimit.
InitNearest ==
    /\ feat \in {[i \in Isrcs |-> IF i \in F THEN RowOf(i) ELSE NoRow] : F \in SUBSET Isrcs}
    /\ tmap \in {[t \in Tracks |-> IF t <= m THEN IsrcOf(t) ELSE NoIsrc] : m \in 0..NumTracks}
    /\ used \in {({"u1"} \X A) \cup ({"u2"} \X B) : A \in SUBSET Tracks, B \in {{}, Tracks}}
    /\ labels = [u \in Users |-> <<>>]
    /\ pid = [u \in Users |-> [c \in Clusters |-> FALSE]]
    /\ gen = [u \in Users |-> [c \in Clusters |-> <<>>]]
    /\ playlist = [u \in Users |-> [c \in Clusters |-> <<>>]]
    /\ req = [u \in Users |-> Idle]
    /\ ever = [u \in Users |-> {}]
    /\ InitWorker /\ InitHarvest
    /\ frame \in [fn : {"nearest_tracks"}, cent : {CentroidOfAudio(a) : a \in Audios},
                  uid : Users, limit : 0..MaxLimit, done : {FALSE}, result : {<<>>}]

NearestCall ==
    /\ ~frame.done
    /\ \E nns \in nearest_tracks(feat, tmap, used, frame.cent, frame.uid, frame.limit) :
        frame' = [frame EXCEPT !.done = TRUE, !.result = nns]
    /\ UNCHANGED <<storeVars, userVars, workerVars, harvestVars>>

NearestSpec == InitNearest /\ [][NearestCall]_vars

\* C2: whatever the tables hold, the list nearest_tracks returns for user uid
\* and limit n has at most n ids and none of them is in uid's UsedSet.
C2_NearestWithinLimitAndUnused ==
    frame.done =>
        /\ Len(frame.result) <= frame.limit
        /\ \A j \in DOMAIN frame.result : <<frame.uid, frame.result[j]>> \notin used

\* A query that fills its limit although the join holds more unused ids, leaves
\* out a used id whose isrc is among the nearest, and returns an id that the
\* other user has used.
C2_Witness ==
    /\ frame.done /\ frame.limit >= 1 /\ Len(frame.result) = frame.limit
    /\ \E t \in Tracks : /\ <<frame.uid, t>> \in used
                         /\ tmap[t] # NoIsrc /\ feat[tmap[t]] # NoRow
    /\ \E t \in Tracks : /\ <<frame.uid, t>> \notin used
                         /\ tmap[t] # NoIsrc /\ feat[tmap[t]] # NoRow
                         /\ t \notin Range(frame.result)
    /\ \E j \in DOMAIN frame.result, u \in Users : <<u, frame.result[j]>> \in used

\* ------------------------------------------------ the scoring of iterate
\* The ids 1..n with the residue r modulo m.
Stripe(n, m, r) == {x \in 1..n : x % m = r}

\* iterate's scoring and elitism as functions under test: the Generation
\* <<1, ..., n>>; up to MaxFullGen ids with every combination of the signals,
\* beyond that with striped ones.
EliteInputs ==
    UNION {[last : {[j \in 1..n |-> j]},
            library : IF n <= MaxFullGen THEN SUBSET (1..n)
                      ELSE {{}} \cup {Stripe(n, 3, r) : r \in 0..2},
            failed : SUBSET {0},
            items : IF n <= MaxFullGen THEN SUBSET (1..n)
                    ELSE {1..n, Stripe(n, 4, 1), 1..(n \div 2)},
            fetched : BOOLEAN,
            recent : IF n <= MaxFullGen THEN SUBSET (1..n)
                     ELSE {Stripe(n, 2, r) : r \in 0..1},
            recentOk : BOOLEAN]
           : n \in 1..GenerationSize}

InitElite ==
    /\ InitStore /\ InitUsers /\ InitWorker /\ InitHarvest
    /\ \E inp \in EliteInputs :
        frame = [fn |-> "iterate", inp |-> inp, stage |-> "input",
                 fitness |-> <<>>, elite |-> <<>>]

\* fitness = {tid: score} of the Generation of the frame.
ScoreGeneration ==
    /\ frame.stage = "input"
    /\ frame' = [frame EXCEPT
           !.stage = "scored",
           !.fitness = fitness_of(frame.inp.last,
                                  saved_flags(frame.inp.last, frame.inp.library, frame.inp.failed),
                                  played_of(frame.inp.recent, frame.inp.recentOk),
                                  now_ids_of(frame.inp.last, frame.inp.items, frame.inp.fetched))]
    /\ UNCHANGED <<storeVars, userVars, workerVars, harvestVars>>

\* elite = the first keep_n ids of the ranking.
SelectElite ==
    /\ frame.stage = "scored"
    /\ frame' = [frame EXCEPT !.stage = "selected",
                              !.elite = elite_of(frame.inp.last, frame.fitness)]
    /\ UNCHANGED <<storeVars, userVars, workerVars, harvestVars>>

EliteSpec == InitElite /\ [][ScoreGeneration \/ SelectElite]_vars

\* The position of id x in the Generation s.
Pos(s, x) == CHOOSE j \in DOMAIN s : s[j] = x

\* C4 as claimed: the elite set of a Generation of N tracks has ceil(0.7 N)
\* members.
C4_EliteSizeIsCeil ==
    frame.stage = "selected" =>
        Len(frame.elite) = (7 * Len(frame.inp.last) + 9) \div 10

\* C4 as amended: the elite set of a Generation of N >= 1 tracks has
\* max(1, floor(0.7 N)) members, none of them twice and all of the Generation.
C4_EliteSizeIsFloor ==
    frame.stage = "selected" =>
        /\ Len(frame.elite) = Max(1, (7 * Len(frame.inp.last)) \div 10)
        /\ NoDup(frame.elite)
        /\ Range(frame.elite) \subseteq Range(frame.inp.last)

\* A Generation of 7 tracks keeps 4 (not 5), and one of 30 keeps 21.
C4_Witness ==
    /\ frame.stage = "selected"
    /\ Len(frame.inp.last) = 7 /\ Len(frame.elite) = 4

\* C5: no track left out of the elite scores strictly higher than an elite
\* track, and of two tracks of equal score of which only one is elite, the
\* elite one comes earlier in the Generation.
C5_EliteIsStableTop ==
    frame.stage = "selected" =>
        \A a \in Range(frame.elite), b \in Range(frame.inp.last) \ Range(frame.elite) :
            /\ frame.fitness[b] <= frame.fitness[a]
            /\ frame.fitness[b] = frame.fitness[a]
                   => Pos(frame.inp.last, a) < Pos(frame.inp.last, b)

\* A tie across the cut: an elite track and one left out score the same, while
\* a later track of higher score is elite too.
C5_Witness ==
    /\ frame.stage = "selected"
    /\ \E a \in Range(frame.elite), b \in Range(frame.inp.last) \ Range(frame.elite) :
           frame.fitness[a] = frame.fitness[b]
    /\ \E a \in Range(frame.elite), b \in Range(frame.inp.last) \ Range(frame.elite) :
           Pos(frame.inp.last, a) > Pos(frame.inp.last, b)

\* The signals of the track x of the frame, as the platform reports them.
IsSaved(x) == 0 \notin frame.inp.failed /\ x \in frame.inp.library
IsPlayed(x) == frame.inp.recentOk /\ x \in frame.inp.recent
IsRemoved(x) == frame.inp.fetched /\ x \notin frame.inp.items

\* C6: the fitness of every track is 3 [saved] + 2 [played] - 4 [removed]
\* - 2 [neither played nor saved]; no track counts as removed when the
\* playlist cannot be fetched, none as saved when the saved call fails.
C6_FitnessIsAdditive ==
    frame.stage # "input" =>
        \A x \in Range(frame.inp.last) :
            frame.fitness[x] =
                (IF IsSaved(x) THEN 3 ELSE 0) + (IF IsPlayed(x) THEN 2 ELSE 0)
                - (IF IsRemoved(x) THEN 4 ELSE 0)
                - (IF ~IsPlayed(x) /\ ~IsSaved(x) THEN 2 ELSE 0)

\* One track is saved, played and removed at once (score 1), another is
\* removed and neither played nor saved (score -6).
C6_Witness ==
    /\ frame.stage = "scored"
    /\ \E x \in Range(frame.inp.last) :
           IsSaved(x) /\ IsPlayed(x) /\ IsRemoved(x) /\ frame.fitness[x] = 1
    /\ \E x \in Range(frame.inp.last) :
           ~IsSaved(x) /\ ~IsPlayed(x) /\ IsRemoved(x) /\ frame.fitness[x] = 0 - 6

\* ------------------------------------------------- the extraction worker
\* What a GET of a preview URL can come to: a body above the size floor, a
\* body at or below it, a response that is not ok, an exception.
Outcomes == {"ok", "small", "notok", "raise"}

\* A variant of the test of the response that takes any body of an ok response.
usable_any_size(o) == o \in {"ok", "small"}

\* resp.ok and resp.content and len(resp.content) > 10000
usable(o) == o = "ok"

\* A variant of the pop that leaves the entry on the list.
lindex(q) == q

\* What LPOP leaves of the list.
lpop(q) == Tail(q)

\* A variant of the main loop without the try: the exception ends the process.
uncaught(local) == [WorkerIdle EXCEPT !.pc = "dead"]

\* An exception unwinds run_once into the except clause of the main loop.
caught(local) == [WorkerIdle EXCEPT !.pc = "except"]

JobIds == 1..MaxJobs
QueuedIds(q) == {q[j].id : j \in DOMAIN q}
Holders(id) == {w \in Workers : worker[w].job.id = id}
NewJob(n) == [pops |-> 0, hit |-> FALSE, fate |-> "queued", wrote |-> FALSE, mapped |-> FALSE]

\* enqueue_job: RPUSH of the job onto essentia:jobs; id numbers the entries.
enqueue_job(q, id, spid, isrc, n) ==
    Append(q, [id |-> id, kind |-> "job", spotify_id |-> spid, isrc |-> isrc, previews |-> n])

\* enqueue_job: the harvest or the enrichment pushes the job of track t with
\* n preview URLs (never none) onto the tail of the list.  Tracks are
\* numbered as the entries of the list are.
Enqueue(t, n) ==
    /\ Len(jobs) < MaxJobs
    /\ t = Len(jobs) + 1
    /\ queue' = enqueue_job(queue, Len(jobs) + 1, t, IsrcOf(t), n)
    /\ jobs' = Append(jobs, NewJob(n))
    /\ UNCHANGED <<storeVars, userVars, worker, frame, harvestVars>>

\* Another producer pushes an entry that is not JSON, or a JSON object
\* without the "isrc" key.
PushForeign(kind) ==
    /\ Len(jobs) < MaxJobs
    /\ queue' = Append(queue, [id |-> Len(jobs) + 1, kind |-> kind, spotify_id |-> 1,
                               isrc |-> NoIsrc, previews |-> 1])
    /\ jobs' = Append(jobs, NewJob(1))
    /\ UNCHANGED <<storeVars, userVars, worker, frame, harvestVars>>

\* run_once up to the first GET: nothing to pop, sleep and return; else pop
\* the head and parse it.
Poll(w) ==
    /\ worker[w].pc = "poll"
    /\ IF queue = <<>>
       THEN UNCHANGED <<queue, worker, jobs>>
       ELSE LET job == Head(queue) IN
            /\ queue' = lpop(queue)
            /\ IF job.kind = "nojson"
               THEN /\ worker' = [worker EXCEPT ![w] = caught(@)]
                    /\ jobs' = [jobs EXCEPT ![job.id].pops = @ + 1, ![job.id].fate = "raised"]
               ELSE /\ worker' = [worker EXCEPT ![w] = [pc |-> "fetch", job |-> job, k |-> 1, mp3 |-> 0]]
                    /\ jobs' = [jobs EXCEPT ![job.id].pops = @ + 1, ![job.id].fate = "running"]
    /\ UNCHANGED <<storeVars, userVars, frame, harvestVars>>

\* One turn of the loop over the preview URLs; after the last URL without a
\* usable body run_once returns.
Fetch(w) ==
    /\ worker[w].pc = "fetch"
    /\ \E o \in Outcomes :
        LET job == worker[w].job IN
        IF usable(o)
        THEN /\ worker' = [worker EXCEPT ![w].pc = "analyze", ![w].mp3 = PreviewOf(job.isrc)]
             /\ jobs' = [jobs EXCEPT ![job.id].hit = @ \/ o = "ok"]
        ELSE IF worker[w].k < job.previews
        THEN /\ worker' = [worker EXCEPT ![w].k = @ + 1]
             /\ jobs' = [jobs EXCEPT ![job.id].hit = @ \/ o = "ok"]
        ELSE /\ worker' = [worker EXCEPT ![w] = WorkerIdle]
             /\ jobs' = [jobs EXCEPT ![job.id].hit = @ \/ o = "ok", ![job.id].fate = "dropped"]
    /\ UNCHANGED <<storeVars, userVars, queue, frame, harvestVars>>

\* music_features_from_preview(mp3): the analyzer returns or raises.
Analyze(w) ==
    /\ worker[w].pc = "analyze"
    /\ \E ok \in BOOLEAN :
        IF ok
        THEN /\ worker' = [worker EXCEPT ![w].pc = "upsert"]
             /\ UNCHANGED jobs
        ELSE /\ worker' = [worker EXCEPT ![w] = caught(@)]
             /\ jobs' = [jobs EXCEPT ![worker[w].job.id].fate = "raised"]
    /\ UNCHANGED <<storeVars, userVars, queue, frame, harvestVars>>

\* upsert_isrc_feature(job["isrc"], vec, feats): a KeyError without the key,
\* else the write succeeds or the store raises.
UpsertFeature(w) ==
    /\ worker[w].pc = "upsert"
    /\ \E ok \in BOOLEAN :
        LET job == worker[w].job
            out == music_features_from_preview(worker[w].mp3)
        IN  IF ok /\ job.kind = "job"
            THEN /\ feat' = upsert_isrc_feature(feat, job.isrc, out.vec, out.feats)
                 /\ worker' = [worker EXCEPT ![w].pc = "map"]
                 /\ jobs' = [jobs EXCEPT ![job.id].wrote = TRUE]
            ELSE /\ worker' = [worker EXCEPT ![w] = caught(@)]
                 /\ jobs' = [jobs EXCEPT ![job.id].fate = "raised"]
                 /\ UNCHANGED feat
    /\ UNCHANGED <<tmap, userVars, queue, frame, harvestVars>>

\* The upsert of the track_map row, after which run_once returns.
UpsertMap(w) ==
    /\ worker[w].pc = "map"
    /\ \E ok \in BOOLEAN :
        LET job == worker[w].job IN
        IF ok
        THEN /\ tmap' = upsert_track_map(tmap, job.spotify_id, job.isrc)
             /\ worker' = [worker EXCEPT ![w] = WorkerIdle]
             /\ jobs' = [jobs EXCEPT ![job.id].mapped = TRUE, ![job.id].fate = "done"]
        ELSE /\ worker' = [worker EXCEPT ![w] = caught(@)]
             /\ jobs' = [jobs EXCEPT ![job.id].fate = "raised"]
             /\ UNCHANGED tmap
    /\ UNCHANGED <<feat, userVars, queue, frame, harvestVars>>

\* except Exception: print, sleep, and around the loop again.
Except(w) ==
    /\ worker[w].pc = "except"
    /\ worker' = [worker EXCEPT ![w] = WorkerIdle]
    /\ UNCHANGED <<storeVars, userVars, queue, jobs, frame, harvestVars>>

\* The process is killed while it holds a job, and started anew.
Crash(w) ==
    /\ worker[w].pc \in {"fetch", "analyze", "upsert", "map"}
    /\ worker' = [worker EXCEPT ![w] = WorkerIdle]
    /\ jobs' = [jobs EXCEPT ![worker[w].job.id].fate = "crashed"]
    /\ UNCHANGED <<storeVars, userVars, queue, frame, harvestVars>>

WorkerStep(w) ==
    Poll(w) \/ Fetch(w) \/ Analyze(w) \/ UpsertFeature(w) \/ UpsertMap(w) \/ Except(w)

WorkerNext ==
    \/ \E t \in 1..MaxJobs, n \in 1..MaxPreviews : Enqueue(t, n)
    \/ \E kind \in {"nojson", "noisrc"} : PushForeign(kind)
    \/ \E w \in Workers : WorkerStep(w)
    \/ \E w \in Workers : Crash(w)

WorkerSpec == Init /\ [][WorkerNext]_vars

\* The worker processes are scheduled fairly.
FairWorkerSpec == WorkerSpec /\ \A w \in Workers : WF_vars(WorkerStep(w))

\* C8: when the GET of the last preview URL of a job ends the loop without
\* any response above the size floor, run_once returns in that step without
\* raising: the worker is back at its poll, no row of isrc_feature or of
\* track_map is written or changed and the queue is as it was; and a job none
\* of whose URLs gave such a response is never analyzed, written or queued
\* again.
C8_NoPreviewJobDropped ==
    /\ [](\A id \in DOMAIN jobs :
            /\ (\E w \in Holders(id) : worker[w].pc \in {"analyze", "upsert", "map"})
                   => jobs[id].hit
            /\ jobs[id].fate = "dropped"
                   => /\ ~jobs[id].hit /\ ~jobs[id].wrote /\ ~jobs[id].mapped
                      /\ jobs[id].pops = 1
                      /\ id \notin QueuedIds(queue) /\ Holders(id) = {})
    /\ [][\A id \in DOMAIN jobs :
            (jobs[id].fate # "dropped" /\ jobs'[id].fate = "dropped")
                => /\ feat' = feat /\ tmap' = tmap /\ queue' = queue
                   /\ \E w \in Holders(id) :
                         /\ worker[w].k = worker[w].job.previews
                         /\ worker'[w] = WorkerIdle]_vars

\* A job was dropped after an earlier one had written rows into both tables.
C8_Witness ==
    \E id \in DOMAIN jobs :
        /\ jobs[id].fate = "dropped" /\ ~jobs[id].hit
        /\ \E i \in Isrcs : feat[i] # NoRow
        /\ \E t \in Tracks : tmap[t] # NoIsrc
        /\ \E id2 \in DOMAIN jobs : id2 < id /\ jobs[id2].fate = "done"

\* C9: an exception in run_once brings the worker back to its poll, and
\* under fair scheduling of the workers every entry on the queue is
\* eventually popped, whatever became of the jobs before it.
C9_WorkerKeepsPolling ==
    /\ \A w \in Workers : (worker[w].pc = "except") ~> (worker[w].pc = "poll")
    /\ \A id \in JobIds :
          (id \in QueuedIds(queue)) ~> (id \in DOMAIN jobs /\ jobs[id].pops >= 1)

\* An analyzer error, a store error or a malformed entry, and a later entry
\* popped after it.
C9_Witness ==
    \E a, b, c \in DOMAIN jobs :
        /\ a < b /\ b < c
        /\ jobs[a].fate = "raised" /\ jobs[b].fate = "raised"
        /\ jobs[c].pops = 1 /\ jobs[c].fate = "done"

\* C10: every entry pushed is on the queue once until it is popped and never
\* after, is popped at most once and then held by at most one worker, and no
\* step puts an entry back; a job that ends by an exception or a crash
\* before the write of its feature row ends without that write, the step
\* leaves isrc_feature as it was, and the fate of a job that has ended never
\* changes.
C10_AtMostOnce ==
    /\ [](\A id \in DOMAIN jobs :
            /\ jobs[id].pops <= 1
            /\ Cardinality({j \in DOMAIN queue : queue[j].id = id})
                   = (IF jobs[id].pops = 0 THEN 1 ELSE 0)
            /\ Cardinality(Holders(id)) <= (IF jobs[id].fate = "running" THEN 1 ELSE 0)
            /\ jobs[id].pops = 0 => jobs[id].fate = "queued")
    /\ [][\A id \in DOMAIN jobs :
            /\ id \notin QueuedIds(queue) => id \notin QueuedIds(queue')
            /\ (jobs[id].fate = "running" /\ jobs'[id].fate \in {"raised", "crashed"}
                    /\ ~jobs[id].wrote)
                   => feat' = feat /\ ~jobs'[id].wrote /\ Holders(id)' = {}
            /\ jobs[id].fate \in {"dropped", "raised", "crashed", "done"}
                   => jobs'[id] = jobs[id]]_vars

\* One job was lost to a crash and one, its preview fetched, to an exception,
\* both before the write, while a third is being handled: the queue is empty
\* and isrc_feature has no row.
C10_Witness ==
    /\ \E a, b \in DOMAIN jobs :
          /\ jobs[a].fate = "crashed" /\ ~jobs[a].wrote
          /\ jobs[b].fate = "raised" /\ ~jobs[b].wrote /\ jobs[b].hit
    /\ \E c \in DOMAIN jobs : jobs[c].fate = "running"
    /\ queue = <<>>
    /\ \A i \in Isrcs : feat[i] = NoRow

\* ------------------------------------------------------------ the harvest
\* The recordings of the source: each a list of isrcs.
Recordings == UNION {[1..n -> Isrcs] : n \in 1..MaxRecIsrcs}

\* The result pages: up to MaxPage recordings.
Pages == UNION {[1..n -> Recordings] : n \in 0..MaxPage}

\* The pages a query can return: mb_random any page; mb_by_tags any page that
\* is not empty while the offset is within the source's results, and the
\* empty page beyond.
PagesAt(kind, offset) ==
    IF kind = "harvest_random" THEN Pages
    ELSE IF offset < NumPages THEN Pages \ {<<>>}
    ELSE {<<>>}

\* A variant of the membership test that finds nothing in the Catalog.
sismember_never(cat, spid) == FALSE

\* r.sismember(cat, spid)
sismember(cat, spid) == spid \in cat

\* The loop over the isrcs of one recording, from the harvest state st =
\* [cat, seen, added, new]: every state it can end in.  spid_by_isrc gives
\* None or a content id of the isrc; dz_preview and itunes_preview give one
\* preview URL or none.  harvest_random skips the isrcs it has seen in this
\* invocation, harvest_by_tags keeps no such set.
RECURSIVE harvest_isrcs(_, _, _, _)
harvest_isrcs(st, isrcs, kind, want) ==
    IF isrcs = <<>> THEN {st}
    ELSE LET isrc == Head(isrcs)
             rest == Tail(isrcs)
         IN  IF kind = "harvest_random" /\ isrc \in st.seen
             THEN harvest_isrcs(st, rest, kind, want)
             ELSE LET st1 == IF kind = "harvest_random"
                             THEN [st EXCEPT !.seen = @ \cup {isrc}] ELSE st
                      spids == {t \in Tracks : IsrcOf(t) = isrc /\ ~sismember(st1.cat, t)}
                      taken(t) == [st1 EXCEPT !.cat = @ \cup {t},
                                              !.new = Append(@, t),
                                              !.added = @ + 1]
                  IN  harvest_isrcs(st1, rest, kind, want)
                      \cup UNION {IF taken(t).added >= want
                                  THEN {taken(t)}
                                  ELSE harvest_isrcs(taken(t), rest, kind, want)
                                  : t \in spids}

\* The loop over the recordings of a page: the break on the count leaves the
\* loop over the isrcs only.
RECURSIVE harvest_recs(_, _, _, _)
harvest_recs(st, page, kind, want) ==
    IF page = <<>> THEN {st}
    ELSE UNION {harvest_recs(s, Tail(page), kind, want)
                : s \in harvest_isrcs(st, Head(page), kind, want)}

\* The jobs and rows that the harvested content ids new leave behind.
RECURSIVE push_all(_, _, _)
push_all(q, first, new) ==
    IF new = <<>> THEN q
    ELSE push_all(enqueue_job(q, first, Head(new), IsrcOf(Head(new)), 1), first + 1, Tail(new))

RECURSIVE map_all(_, _)
map_all(tm, new) ==
    IF new = <<>> THEN tm
    ELSE map_all(upsert_track_map(tm, Head(new), IsrcOf(Head(new))), Tail(new))

Count(new, t) == Cardinality({j \in DOMAIN new : new[j] = t})

\* /harvest_random or /harvest_by_tags with ?count=want: the loop is entered
\* when 0 < want.
HarvestStart(u, kind, want) ==
    /\ harv[u].op = "idle"
    /\ harv' = [harv EXCEPT ![u] =
           IF 0 < want
           THEN [op |-> kind, pc |-> "fetch", want |-> want, added |-> 0,
                 seen |-> {}, offset |-> 0, empty |-> FALSE]
           ELSE HarvIdle]
    /\ UNCHANGED <<storeVars, userVars, workerVars, catalog, harvested, frame>>

\* What one turn of the while loop can come to on the pages the source may
\* return: the harvest state after the page, and whether the page was empty.
page_outcomes(cat, h) ==
    UNION {{[s |-> s, empty |-> (page = <<>>)]
            : s \in harvest_recs([cat |-> cat, seen |-> h.seen, added |-> h.added,
                                  new |-> <<>>], page, h.op, h.want)}
           : page \in PagesAt(h.op, h.offset)}

\* One turn of the while loop up to its sleep: the page is fetched and its
\* recordings are gone through.  An empty page ends harvest_by_tags.
HarvestPage(u) ==
    /\ harv[u].pc = "fetch"
    /\ \E o \in page_outcomes(catalog[u], harv[u]) :
        IF harv[u].op = "harvest_by_tags" /\ o.empty
        THEN /\ harv' = [harv EXCEPT ![u] = HarvIdle]
             /\ UNCHANGED <<tmap, queue, jobs, catalog, harvested>>
        ELSE /\ catalog' = [catalog EXCEPT ![u] = o.s.cat]
             /\ queue' = push_all(queue, Len(jobs) + 1, o.s.new)
             /\ jobs' = jobs \o [j \in DOMAIN o.s.new |-> NewJob(1)]
             /\ tmap' = map_all(tmap, o.s.new)
             /\ harvested' = [harvested EXCEPT ![u] =
                                 [t \in Tracks |-> @[t] + Count(o.s.new, t)]]
             /\ harv' = [harv EXCEPT ![u].pc = "sleep", ![u].seen = o.s.seen,
                                     ![u].added = o.s.added,
                                     ![u].empty = o.empty,
                                     ![u].offset = IF harv[u].op = "harvest_by_tags"
                                                   THEN @ + 1 ELSE @]
    /\ UNCHANGED <<feat, userVars, worker, frame>>

\* time.sleep(1.0) and the test of the while loop; the response ends the
\* invocation.
HarvestSleep(u) ==
    /\ harv[u].pc = "sleep"
    /\ harv' = [harv EXCEPT ![u] = IF harv[u].added < harv[u].want
                                   THEN [@ EXCEPT !.pc = "fetch"]
                                   ELSE HarvIdle]
    /\ UNCHANGED <<storeVars, userVars, workerVars, catalog, harvested, frame>>

\* The query of the source raises (raise_for_status): the invocation ends
\* with an error.
HarvestFails(u) ==
    /\ harv[u].pc = "fetch"
    /\ harv' = [harv EXCEPT ![u] = HarvIdle]
    /\ UNCHANGED <<storeVars, userVars, workerVars, catalog, harvested, frame>>

HarvestStep(u) == HarvestPage(u) \/ HarvestSleep(u)

HarvestNext ==
    \/ \E kind \in {"harvest_random", "harvest_by_tags"}, want \in 0..MaxWant :
          HarvestStart("u1", kind, want)
    \/ HarvestStep("u1")
    \/ HarvestFails("u1")

HarvestSpec == Init /\ [][HarvestNext]_vars

\* The handler of a harvest request runs on.
FairHarvestSpec == HarvestSpec /\ WF_vars(HarvestStep("u1"))

C12_AddedWithinCount ==
    \A u \in Users : harv[u].op # "idle" => harv[u].added <= harv[u].want

\* C13 as claimed: no invocation goes on to query the source after an empty
\* page, and every invocation ends.
C13_HarvestTerminates ==
    /\ [](\A u \in Users : harv[u].pc = "fetch" => ~harv[u].empty)
    /\ \A u \in Users : (harv[u].op # "idle") ~> (harv[u].op = "idle")

\* The distance of the backing vector of a returned content id to the query.
DistOf(t) == Dist(frame.cent, feat[tmap[t]].vec)

\* C14 as claimed: in the list nearest_tracks returns, the backing vector of
\* an earlier content id is at most as far from the query vector as that of
\* a later one.
C14_NearestFirst ==
    frame.done =>
        \A i, j \in DOMAIN frame.result :
            i < j => DistOf(frame.result[i]) <= DistOf(frame.result[j])

\* ------------------------------------------------------ the feature upsert
\* upsert_isrc_feature as a function under test: from the empty table, any
\* sequence of upserts of the features of any audio under any isrc.  Each is
\* one statement on an autocommit connection, so upserts of different
\* workers interleave as a sequence.
InitUpsert ==
    /\ InitStore /\ InitUsers /\ InitWorker /\ InitHarvest
    /\ frame = [fn |-> "upsert_isrc_feature", n |-> 0, isrc |-> NoIsrc, audio |-> 0,
                replaced |-> FALSE, repeat |-> FALSE]

UpsertCall(i, a) ==
    /\ frame.n < MaxUpserts
    /\ feat' = upsert_isrc_feature(feat, i, music_features_from_preview(a).vec,
                                   music_features_from_preview(a).feats)
    /\ frame' = [fn |-> "upsert_isrc_feature", n |-> frame.n + 1, isrc |-> i, audio |-> a,
                 replaced |-> (frame.replaced \/ feat[i] \notin {NoRow, feat'[i]}),
                 repeat |-> (frame.n > 0 /\ frame.isrc = i /\ frame.audio = a)]
    /\ UNCHANGED <<tmap, userVars, workerVars, harvestVars>>

UpsertSpec == InitUpsert /\ [][\E i \in Isrcs, a \in Audios : UpsertCall(i, a)]_vars

\* The row a complete upsert of the features of audio a writes.
RowOfAudio(a) ==
    [vec |-> vec_literal(music_features_from_preview(a).vec),
     feats |-> music_features_from_preview(a).feats,
     extractor_version |-> EXTRACTOR_VERSION]

\* C15: after any sequence of upserts the row of the isrc last upserted is
\* the row of that upsert, every row is the row of one complete upsert, an
\* upsert leaves the rows of the other isrcs alone, and an upsert applied a
\* second time changes nothing.
C15_UpsertReplaces ==
    /\ [](frame.n > 0 => feat[frame.isrc] = RowOfAudio(frame.audio))
    /\ [](\A i \in Isrcs : feat[i] = NoRow \/ \E a \in Audios : feat[i] = RowOfAudio(a))
    /\ [][/\ \A i \in Isrcs : i # frame'.isrc => feat'[i] = feat[i]
          /\ frame'.repeat => feat' = feat]_vars

\* An upsert replaced the row that the features of another audio had under
\* the same isrc, and the last upsert was applied a second time.
C15_Witness == frame.n = MaxUpserts /\ frame.repeat /\ frame.replaced

\* ------------------------------------------------------------ two users
\* enrich_missing: the members of the user's Catalog without an identity row
\* are looked up and mapped; a job is enqueued for every member with an isrc
\* and no feature row for which a preview is found, in the order of the dict.
EnrichMissing(u) ==
    /\ harv[u].op = "idle" /\ req[u].op = "idle"
    /\ LET need == {t \in catalog[u] : tmap[t] = NoIsrc}
           have == {i \in Isrcs : feat[i] # NoRow}
           open == {t \in catalog[u] : IsrcOf(t) \notin have}
       IN  \E F \in SUBSET open :
           \E new \in DistinctSeqs(F, Cardinality(F)) :
               /\ Len(queue) + Len(new) <= MaxQueue
               /\ tmap' = [t \in Tracks |-> IF t \in need THEN IsrcOf(t) ELSE tmap[t]]
               /\ queue' = push_all(queue, Len(jobs) + 1, new)
               /\ jobs' = jobs \o [j \in DOMAIN new |-> NewJob(1)]
    /\ UNCHANGED <<feat, userVars, worker, harvestVars, frame>>

\* Two users on one store in which the worker has extracted the first isrcs:
\* each user either harvests and enriches or populates and iterates.
InitTwoUsers ==
    /\ feat = [i \in Isrcs |-> IF i < NumTracks - 1 THEN RowOf(i) ELSE NoRow]
    /\ tmap = [t \in Tracks |-> IsrcOf(t)]
    /\ used = {}
    /\ labels = [u \in Users |-> <<0>>]
    /\ pid = [u \in Users |-> [c \in Clusters |-> FALSE]]
    /\ gen = [u \in Users |-> [c \in Clusters |-> <<>>]]
    /\ playlist = [u \in Users |-> [c \in Clusters |-> <<>>]]
    /\ req = [u \in Users |-> Idle]
    /\ ever = [u \in Users |-> {}]
    /\ InitWorker /\ InitHarvest
    /\ frame \in [fn : {"users"}, role : [Users -> {"harvest", "playlists"}]]

\* A first harvest of one track by either strategy, its turns, an enrichment.
HarvestInvocation(u) ==
    \/ /\ catalog[u] = {} /\ req[u].op = "idle"
       /\ \E kind \in {"harvest_random", "harvest_by_tags"} : HarvestStart(u, kind, 1)
    \/ HarvestStep(u)
    \/ HarvestFails(u)
    \/ EnrichMissing(u)

PlaylistInvocation(u) ==
    \/ PopulateStart(u) \/ PopulateCluster(u)
    \/ IterateStart(u) \/ IterateCluster(u)
    \/ RequestFails(u)

TwoUsersNext ==
    \E u \in Users :
        \/ frame.role[u] = "harvest" /\ HarvestInvocation(u)
        \/ frame.role[u] = "playlists" /\ PlaylistInvocation(u)

TwoUsersSpec == InitTwoUsers /\ [][TwoUsersNext]_vars

\* The per-user state of user v, and the used rows of user u alone.
PerUser(v) ==
    <<catalog[v], UsedSet(used, v), gen[v], pid[v], playlist[v], labels[v],
      req[v], harv[v], harvested[v], ever[v]>>
OwnRows(us, u) == {row \in us : row[1] = u}

MaxCands == 3
MaxK == 3

CandidateLists ==
    {Ranked(nns) : nns \in UNION {DistinctSeqs(Tracks, n) : n \in 0..MaxCands}}

InitSample ==
    /\ InitStore /\ InitUsers /\ InitWorker /\ InitHarvest
    /\ frame \in [fn : {"softmax_sample"}, cands : CandidateLists, k : 0..MaxK,
                  tau : {TauPopulate, TauIterate}, done : {FALSE}, picks : {<<>>}]

SampleCall ==
    /\ frame.fn = "softmax_sample" /\ ~frame.done
    /\ \E picks \in softmax_sample(frame.cands, frame.k, frame.tau) :
           frame' = [frame EXCEPT !.done = TRUE, !.picks = picks]
    /\ UNCHANGED <<storeVars, userVars, workerVars, harvestVars>>

SampleSpec == InitSample /\ [][SampleCall]_vars

FeatureKeys ==
    {"bpm", "onset_rate", "key_key", "key_scale", "tonnetz_mean", "hpcp_mean",
     "mfcc_mean", "spectral_centroid_mean", "spectral_flatness_mean",
     "loudness_integrated", "valence_pred", "arousal_pred"}

FeatureMaps ==
    {[k \in S |-> music_features_from_preview(a).feats[k]] :
        S \in SUBSET FeatureKeys, a \in Audios}

InitAssemble ==
    /\ InitStore /\ InitUsers /\ InitWorker /\ InitHarvest
    /\ frame \in [fn : {"assemble_vec"}, feats : FeatureMaps, done : {FALSE},
                  vec : {<<>>}]

AssembleCall ==
    /\ frame.fn = "assemble_vec" /\ ~frame.done
    /\ frame' = [frame EXCEPT !.done = TRUE, !.vec = assemble_vec(frame.feats)]
    /\ UNCHANGED <<storeVars, userVars, workerVars, harvestVars>>

AssembleSpec == InitAssemble /\ [][AssembleCall]_vars

\* The slots of the vector a field fills: 2 scalars, 24 key slots, the lists
\* of 6, 12 and 13, 3 scalars, 2 affect scores.
SlotsOf(k) ==
    CASE k = "bpm" -> 1..1 [] k = "onset_rate" -> 2..2
      [] k = "key_key" -> 3..26 [] k = "key_scale" -> {}
      [] k = "tonnetz_mean" -> 27..32 [] k = "hpcp_mean" -> 33..44
      [] k = "mfcc_mean" -> 45..57
      [] k = "spectral_centroid_mean" -> 58..58
      [] k = "spectral_flatness_mean" -> 59..59
      [] k = "loudness_integrated" -> 60..60
      [] k = "valence_pred" -> 61..61 [] k = "arousal_pred" -> 62..62

\* C18: whichever subset of the keys a feature map has, the assembled vector
\* has exactly 62 entries; the slots of an absent field hold 0, those of an
\* absent affect score 0.5, and the slots of a field that is
\* present hold its value.
C18_AlwaysFullVector ==
    frame.done =>
        /\ Len(frame.vec) = VecDim
        /\ \A k \in FeatureKeys \ DOMAIN frame.feats : \A s \in SlotsOf(k) :
               frame.vec[s] = IF k \in {"valence_pred", "arousal_pred"} THEN Half ELSE 0
        /\ \A k \in DOMAIN frame.feats \ {"key_key", "key_scale"} :
               LET lo == CHOOSE s \in SlotsOf(k) : \A t \in SlotsOf(k) : s <= t
               IN  IF k \in {"tonnetz_mean", "hpcp_mean", "mfcc_mean"}
                   THEN \A s \in SlotsOf(k) : frame.vec[s] = frame.feats[k][s - lo + 1]
                   ELSE frame.vec[lo] = frame.feats[k]

\* A map holding only the tempo and the key name was assembled.
C18_Witness ==
    /\ frame.done /\ DOMAIN frame.feats = {"bpm", "key_key"}
    /\ frame.vec[1] = frame.feats["bpm"] /\ frame.vec[1] > 0

\* ---------------------------------------------- the key encoding under test
\* key_onehot of the application and of the worker as functions under test.
\* A call names a pitch class 0..11 by one of its spellings, in upper or lower
\* case, or gives a key that names none (pitch -1): a name outside the table,
\* the empty string, or None; the scale is any spelling of major or minor,
\* the empty string, or None.
PitchNames == <<"C", "C#", "D", "D#", "E", "F", "F#", "G", "G#", "A", "A#", "B">>
PitchNamesLower == <<"c", "c#", "d", "d#", "e", "f", "f#", "g", "g#", "a", "a#", "b">>
NoPitch == 0 - 1
UnknownKeys == {"h", "Eb", "", None}
MajorSpellings == {"major", "Major", "MAJOR"}
MinorSpellings == {"minor", "Minor", "MINOR"}

InitKey ==
    /\ InitStore /\ InitUsers /\ InitWorker /\ InitHarvest
    /\ \E sc \in MajorSpellings \cup MinorSpellings \cup {"", None} :
        \/ \E p \in 0..11 : \E k \in {PitchNames[p + 1], PitchNamesLower[p + 1]} :
              frame = [fn |-> "key_onehot", pitch |-> p, k |-> k, scale |-> sc,
                       done |-> FALSE, vec |-> <<>>, wvec |-> <<>>]
        \/ \E k \in UnknownKeys :
              frame = [fn |-> "key_onehot", pitch |-> NoPitch, k |-> k, scale |-> sc,
                       done |-> FALSE, vec |-> <<>>, wvec |-> <<>>]

KeyCall ==
    /\ frame.fn = "key_onehot" /\ ~frame.done
    /\ frame' = [frame EXCEPT !.done = TRUE,
                              !.vec = key_onehot(frame.k, frame.scale),
                              !.wvec = worker_key_onehot(frame.k, frame.scale)]
    /\ UNCHANGED <<storeVars, userVars, workerVars, harvestVars>>

KeySpec == InitKey /\ [][KeyCall]_vars

\* C19: in the application and in the worker alike, a pitch class 0..11 with
\* major or minor gives 24 slots of which exactly one is 1, the slot
\* pitch*2 + (0 if major else 1) counted from 0; the 24 pairs of pitch class
\* and scale give 24 different vectors; and a key that names no pitch class
\* (unknown, empty or None) gives 24 zeros.
C19_KeyOneHot ==
    /\ frame.done =>
           \A v \in {frame.vec, frame.wvec} :
               /\ Len(v) = 24
               /\ (frame.pitch # NoPitch
                       /\ frame.scale \in MajorSpellings \cup MinorSpellings)
                      => \A s \in 1..24 :
                             v[s] = IF s - 1 = frame.pitch * 2
                                             + (IF frame.scale \in MajorSpellings
                                                THEN 0 ELSE 1)
                                    THEN One ELSE 0
               /\ frame.pitch = NoPitch => \A s \in 1..24 : v[s] = 0
    /\ Cardinality({key_onehot(PitchNames[p + 1], sc) :
                        p \in 0..11, sc \in {"major", "minor"}}) = 24
    /\ Cardinality({worker_key_onehot(PitchNames[p + 1], sc) :
                        p \in 0..11, sc \in {"major", "minor"}}) = 24

\* The last pitch class in lower case with a capitalised minor: slot 23, the
\* last of the 24.
C19_Witness ==
    /\ frame.done /\ frame.k = "b" /\ frame.scale = "Minor"
    /\ frame.vec[24] = One /\ frame.wvec[24] = One

\* ------------------------------------------------- the refill of iterate
\* C20: a round of iterate that kept an elite and had, whatever list the
\* query returned, at least target size minus elite size candidates left
\* after excluding the elite and skipping the closest, stores a Generation of
\* exactly the target size, whatever the size of the previous Generation.
C20_MutationFillsToTarget ==
    [][\A u \in Users :
          LET i == req[u].i
              last == gen[u][i]
              elite == Prefix(gen'[u][i], keep_n(Len(last)))
              cent == centroid_for_cluster(feat, tmap, labels[u], i)
          IN  (/\ IterateCluster(u) /\ pid[u][i] /\ last # <<>>
               /\ \A nns \in iterate_nns(feat, tmap, used, cent, u) :
                      Len(DropFirst(without(nns, elite), SkipClosest))
                          >= TargetSize - Len(elite))
                  => Len(gen'[u][i]) = TargetSize]_vars

\* ------------------------------------------------ the harvest cut short
\* What the turn of a harvest has come to when it reaches a further track:
\* the states after the recordings gone through before it, on the pages that
\* have room for one more recording.
stop_outcomes(cat, h) ==
    UNION {harvest_recs([cat |-> cat, seen |-> h.seen, added |-> h.added, new |-> <<>>],
                        page, h.op, h.want)
           : page \in {p \in Pages : Len(p) < MaxPage
                                      /\ p \o <<<<1>>>> \in PagesAt(h.op, h.offset)}}

\* The handler stops inside the step of a track t that it is harvesting:
\* r.sadd or upsert_track_map raises (neither is guarded), or the process is
\* killed between two of the three writes.  at = "rpush": the job is
\* pushed; at = "sadd": the job is pushed and the id is in the Catalog.
HarvestStopped(u) ==
    /\ harv[u].pc = "fetch"
    /\ \E s \in stop_outcomes(catalog[u], harv[u]) :
       \E t \in {x \in Tracks : /\ ~sismember(s.cat, x)
                                 /\ harv[u].op = "harvest_random"
                                        => IsrcOf(x) \notin s.seen} :
       \E at \in {"rpush", "sadd"} :
           LET new == Append(s.new, t) IN
           /\ Len(queue) + Len(new) <= MaxQueue
           /\ queue' = push_all(queue, Len(jobs) + 1, new)
           /\ jobs' = jobs \o [j \in DOMAIN new |-> NewJob(1)]
           /\ catalog' = [catalog EXCEPT ![u] =
                              IF at = "sadd" THEN s.cat \cup {t} ELSE s.cat]
           /\ tmap' = map_all(tmap, s.new)
           /\ harvested' = [harvested EXCEPT ![u] =
                                [x \in Tracks |-> @[x] + Count(new, x)]]
           /\ harv' = [harv EXCEPT ![u] = HarvIdle]
    /\ UNCHANGED <<feat, userVars, worker, frame>>

\* Harvests of one track of one user, cut short or not, beside one worker
\* process; a harvest starts while fewer than two jobs were ever pushed.
StoppedHarvestNext ==
    \/ /\ Len(jobs) < 2
       /\ \E kind \in {"harvest_random", "harvest_by_tags"} : HarvestStart("u1", kind, 1)
    \/ HarvestStep("u1")
    \/ HarvestFails("u1")
    \/ HarvestStopped("u1")
    \/ WorkerStep("w1")
    \/ Crash("w1")

StoppedHarvestSpec == Init /\ [][StoppedHarvestNext]_vars

\* C21 as claimed: while no harvest of the user is under way, every content
\* id in the user's Catalog has its identity row in track_map and had a job
\* enqueued for it by a harvest, whatever became of the job, also after a
\* harvest that was stopped inside the step of a track.
C21_CatalogEntriesMapped ==
    \A u \in Users :
        harv[u].op = "idle" =>
            \A t \in catalog[u] : tmap[t] = IsrcOf(t) /\ harvested[u][t] >= 1

\* ------------------------------------------ the two assemblers side by side
\* C22: for every row the worker has stored, the vector that assemble_vec
\* gives for the stored feature map has 62 entries and, written as the worker
\* writes a vector (vec_literal, six decimals), is the stored vector entry
\* by entry.
C22_AssemblersAgree ==
    \A i \in Isrcs :
        feat[i] # NoRow =>
            /\ Len(assemble_vec(feat[i].feats)) = VecDim
            /\ Len(feat[i].vec) = VecDim
            /\ \A d \in 1..VecDim :
                   round6(assemble_vec(feat[i].feats)[d]) = feat[i].vec[d]

\* C22 as claimed: the vector that assemble_vec gives for the stored feature
\* map is the stored vector, entry by entry.
C22_AssembledIsStored ==
    \A i \in Isrcs :
        feat[i] # NoRow => assemble_vec(feat[i].feats) = feat[i].vec

\* A worker has stored the row of a job and is about to write the identity
\* row; the tempo of the stored map has digits that the stored vector lacks.
C22_Witness ==
    \E w \in Workers :
        /\ worker[w].pc = "map"
        /\ feat[worker[w].job.isrc] # NoRow
        /\ feat[worker[w].job.isrc].feats.bpm # feat[worker[w].job.isrc].vec[1]

\* ------------------------------------------- Generations stay non-empty
\* C23: no step empties a stored Generation; a round of populate for a
\* cluster without a centroid or without any unseen candidate leaves the
\* cluster's Generation, its playlist and the UsedSet as they are; and the
\* Generation a round of iterate stores holds at least one track of the
\* Generation before it.
C23_GenerationStaysNonEmpty ==
    [][\A u \in Users :
          LET i == req[u].i
              cent == centroid_for_cluster(feat, tmap, labels[u], i)
          IN  /\ \A c \in Clusters : gen[u][c] # <<>> => gen'[u][c] # <<>>
              /\ (/\ PopulateCluster(u)
                  /\ \/ cent = NoCentroid
                     \/ populate_picks(feat, tmap, used, cent, u) = {<<>>})
                     => /\ gen'[u] = gen[u] /\ playlist'[u] = playlist[u]
                        /\ used' = used
              /\ (IterateCluster(u) /\ gen'[u][i] # gen[u][i])
                     => Range(gen'[u][i]) \cap Range(gen[u][i]) # {}]_vars

\* populate has passed cluster 0, which has a centroid, a Generation and no
\* unseen candidate left, after an iterate had replaced a track of it.
C23_Witness ==
    LET cent == centroid_for_cluster(feat, tmap, labels["u1"], 0)
    IN  /\ req["u1"].op = "populate" /\ req["u1"].i = 1
        /\ gen["u1"][0] # <<>> /\ cent # NoCentroid
        /\ populate_picks(feat, tmap, used, cent, "u1") = {<<>>}
        /\ ever["u1"] \ UNION {Range(gen["u1"][c]) : c \in Clusters} # {}

====
